---------------------------- MODULE Spec2Model ----------------------------
(***************************************************************************)
(* Dynamic Muskingum routing and N-step forecast (src/src/lib/hydro).      *)
(*                                                                         *)
(* Numbers.  The source computes in IEEE doubles; the model computes in    *)
(* exact arithmetic.  A JavaScript number is a record                      *)
(*     [k |-> kind, v |-> <<n, d>>, e |-> <<n, d>>]                        *)
(* of kind "num" (the real v + e * 1e-12, v and e normalised fractions),   *)
(* "nan" (NaN), "undef" (undefined, e.g. an array read out of range or a   *)
(* missing field of a Sample), "inf" (+Infinity) or "sym" (a finite real   *)
(* that exact arithmetic cannot name: a logarithm, a non-integer power).   *)
(* The e part exists because the stability                                 *)
(* guard of muskingumCoeffs adds 1e-12, which no fraction of two 32-bit    *)
(* integers can hold: quantities are carried to first order in 1e-12 and   *)
(* ordered by v first, then by e.  Rounding of doubles is not modelled.    *)
(***************************************************************************)
EXTENDS Integers, Sequences, FiniteSets, TLC

VARIABLES pc, args, ret

\* the options and the locals of dynamicRouteAndForecastN (rcPairs is its
\* local pairs)
VARIABLES opts, I, Oobs, mk, Orouted, rcPairs, rc, histI, prevO, prevH, lastT,
          step, forecasts

fvars == <<opts, I, Oobs, mk, Orouted, rcPairs, rc, histI, prevO, prevH, lastT,
           step, forecasts>>
vars == <<pc, args, ret, fvars>>

-----------------------------------------------------------------------------
(* Exact fractions <<n, d>>, d > 0, in lowest terms.                       *)

Abs(x) == IF x < 0 THEN -x ELSE x

RECURSIVE GCD(_, _)
GCD(a, b) == IF b = 0 THEN a ELSE GCD(b, a % b)

Norm(n, d) ==
    LET s == IF d < 0 THEN -1 ELSE 1
        g == GCD(Abs(n), Abs(d))
    IN  <<(s * n) \div g, (s * d) \div g>>

RZero == <<0, 1>>
ROne == <<1, 1>>
RNeg(a) == <<-a[1], a[2]>>

RAdd(a, b) ==
    IF a[1] = 0 THEN b
    ELSE IF b[1] = 0 THEN a
    ELSE IF a[2] = b[2] THEN Norm(a[1] + b[1], a[2])
    ELSE LET g == GCD(a[2], b[2])
             l == (a[2] \div g) * b[2]
         IN  Norm(a[1] * (l \div a[2]) + b[1] * (l \div b[2]), l)

RSub(a, b) == RAdd(a, RNeg(b))

\* cancels crosswise before multiplying: the product of two fractions in
\* lowest terms is then in lowest terms
RMul(a, b) ==
    IF a[1] = 0 \/ b[1] = 0 THEN RZero
    ELSE LET g1 == IF b[2] = 1 THEN 1 ELSE GCD(Abs(a[1]), b[2])
             g2 == IF a[2] = 1 THEN 1 ELSE GCD(Abs(b[1]), a[2])
         IN  <<(a[1] \div g1) * (b[1] \div g2), (a[2] \div g2) * (b[2] \div g1)>>

RInv(a) == IF a[1] < 0 THEN <<-a[2], -a[1]>> ELSE <<a[2], a[1]>>
RDiv(a, b) == RMul(a, RInv(b))
RSign(a) == IF a[1] < 0 THEN -1 ELSE IF a[1] = 0 THEN 0 ELSE 1
\* a < b by continued fractions: no product is formed, so fractions of very
\* different magnitudes (1e-6 against 86400) compare without overflow
RECURSIVE RLt(_, _)
RLt(a, b) ==
    LET fa == a[1] \div a[2]
        fb == b[1] \div b[2]
        ra == a[1] - fa * a[2]
        rb == b[1] - fb * b[2]
    IN  IF fa # fb THEN fa < fb
        ELSE IF rb = 0 THEN FALSE
        ELSE IF ra = 0 THEN TRUE
        ELSE RLt(<<b[2], rb>>, <<a[2], ra>>)

-----------------------------------------------------------------------------
(* JavaScript numbers.                                                     *)

Num(n, d) == [k |-> "num", v |-> Norm(n, d), e |-> RZero]
Dual(v, e) == [k |-> "num", v |-> v, e |-> e]
NaN == [k |-> "nan", v |-> RZero, e |-> RZero]
Undef == [k |-> "undef", v |-> RZero, e |-> RZero]
Zero == Num(0, 1)
One == Num(1, 1)
\* the literal 1e-12
Eps12 == Dual(RZero, ROne)

\* a finite real the fractions cannot name (Math.log, Math.exp, Math.pow with
\* a non-integer exponent), and +Infinity
Sym == [k |-> "sym", v |-> RZero, e |-> RZero]
PosInf == [k |-> "inf", v |-> RZero, e |-> RZero]
\* an unnamed real known to be positive (Math.exp) or negative; the sign of
\* Sym is not known
SymPos == [k |-> "sym", v |-> <<1, 1>>, e |-> RZero]
SymNeg == [k |-> "sym", v |-> <<-1, 1>>, e |-> RZero]

IsNum(x) == x.k = "num"
IsSym(x) == x.k = "sym"
\* neither NaN, undefined nor an infinity
IsReal(x) == x.k \in {"num", "sym"}
\* the order of an unnamed real against another number is not known: no
\* modelled path asks for it, and evaluation stops here if one ever does
UnknownOrder == CHOOSE b \in {} : TRUE
\* isFiniteNumber: typeof x === 'number' && Number.isFinite(x)
isFiniteNumber(x) == x.k = "num"

IsPositive(x) == x = SymPos \/ (x.k = "num" /\ (RLt(RZero, x.v) \/ (x.v = RZero /\ RLt(RZero, x.e))))
IsNegative(x) == x = SymNeg \/ (x.k = "num" /\ (RLt(x.v, RZero) \/ (x.v = RZero /\ RLt(x.e, RZero))))

\* a + b, a - b, a * b, a / b: NaN as soon as an operand is NaN or undefined;
\* a positive number times +Infinity is +Infinity
Add(a, b) ==
    IF IsNum(a) /\ IsNum(b) THEN Dual(RAdd(a.v, b.v), RAdd(a.e, b.e))
    ELSE IF IsReal(a) /\ IsReal(b) THEN Sym ELSE NaN
Sub(a, b) ==
    IF IsNum(a) /\ IsNum(b) THEN Dual(RSub(a.v, b.v), RSub(a.e, b.e))
    ELSE IF IsReal(a) /\ IsReal(b) THEN Sym ELSE NaN
Mul(a, b) ==
    IF IsNum(a) /\ IsNum(b)
    THEN Dual(RMul(a.v, b.v), RAdd(RMul(a.v, b.e), RMul(a.e, b.v)))
    ELSE IF IsReal(a) /\ IsReal(b) THEN (IF a = Zero \/ b = Zero THEN Zero ELSE Sym)
    ELSE IF (a = PosInf /\ IsPositive(b)) \/ (b = PosInf /\ IsPositive(a)) THEN PosInf
    ELSE NaN
\* every divisor of the modelled code is non-zero on the modelled inputs
\* (0 / 0 is NaN; x / 0 with x # 0 would be an infinity, which has no kind here)
Div(a, b) ==
    IF IsNum(a) /\ IsNum(b) /\ b.v # RZero
    THEN LET q == RDiv(a.v, b.v)
         IN  Dual(q, RDiv(RSub(a.e, RMul(q, b.e)), b.v))
    ELSE IF IsReal(a) /\ IsReal(b) /\ b.v # RZero THEN Sym ELSE NaN

\* a < b, a <= b: false as soon as an operand is NaN or undefined
Lt(a, b) ==
    IF IsNum(a) /\ IsNum(b)
    THEN \/ RLt(a.v, b.v)
         \/ a.v = b.v /\ RLt(a.e, b.e)
    ELSE IF IsReal(a) /\ IsReal(b) THEN UnknownOrder ELSE FALSE
Le(a, b) == IF IsNum(a) /\ IsNum(b) THEN a = b \/ Lt(a, b) ELSE Lt(a, b)

\* Math.max(a, b), Math.min(a, b): NaN as soon as an operand is NaN or
\* undefined
MathMax(a, b) == IF IsReal(a) /\ IsReal(b) THEN (IF Lt(a, b) THEN b ELSE a) ELSE NaN
MathMin(a, b) == IF IsReal(a) /\ IsReal(b) THEN (IF Lt(b, a) THEN b ELSE a) ELSE NaN

\* a ?? b
Coalesce(a, b) == IF a.k = "undef" THEN b ELSE a

\* x * x * ... * x, g times
RECURSIVE PowNat(_, _)
PowNat(x, g) == IF g = 0 THEN One ELSE Mul(x, PowNat(x, g - 1))

\* Math.pow(x, y) for x >= 0: exact for a natural exponent y, for x = 1 and
\* for x = 0 with y of known sign (0 for y > 0, +Infinity for y < 0), an
\* unnamed real otherwise
MathPow(x, y) ==
    IF IsNum(y) /\ y.v[2] = 1 /\ y.v[1] >= 0 /\ y.e = RZero
    THEN PowNat(x, y.v[1])
    ELSE IF ~IsReal(x) \/ ~IsReal(y) THEN NaN
    ELSE IF x = One THEN One
    ELSE IF x = Zero /\ IsPositive(y) THEN Zero
    ELSE IF x = Zero /\ IsNegative(y) THEN PosInf
    ELSE Sym

-----------------------------------------------------------------------------
(* Helpers and muskingumCoeffs.                                            *)

clamp(x, lo, hi) == MathMax(lo, MathMin(hi, x))

\* the K floor 1e-6 of muskingumCoeffs (seconds)
KFloor == Num(1, 1000000)
\* the safety factor 1.01 on the minimum stable K
KMargin == Num(101, 100)

\* muskingumCoeffs dividing by a denominator built from the K that was
\* supplied instead of the stabilised one
muskingumCoeffs_staleDenom(Ksec, X, dtSec) ==
    LET K == MathMax(Ksec, KFloor)
        Xc == clamp(X, Zero, Num(1, 2))
        minK == Div(dtSec, Add(Mul(Num(2, 1), Sub(One, Xc)), Eps12))
        Kst == MathMax(K, Mul(minK, KMargin))
        denom == Add(Mul(Mul(Num(2, 1), K), Sub(One, Xc)), dtSec)
        C0 == Div(Sub(dtSec, Mul(Mul(Num(2, 1), Kst), Xc)), denom)
        C1 == Div(Add(dtSec, Mul(Mul(Num(2, 1), Kst), Xc)), denom)
        C2 == Div(Sub(Mul(Mul(Num(2, 1), Kst), Sub(One, Xc)), dtSec), denom)
    IN  [K |-> Kst, X |-> Xc, C0 |-> C0, C1 |-> C1, C2 |-> C2]

\* muskingumCoeffs always returning the minimum stable K
muskingumCoeffs_alwaysRaise(Ksec, X, dtSec) ==
    LET Xc == clamp(X, Zero, Num(1, 2))
        minK == Div(dtSec, Add(Mul(Num(2, 1), Sub(One, Xc)), Eps12))
        Kst == Mul(minK, KMargin)
        denom == Add(Mul(Mul(Num(2, 1), Kst), Sub(One, Xc)), dtSec)
        C0 == Div(Sub(dtSec, Mul(Mul(Num(2, 1), Kst), Xc)), denom)
        C1 == Div(Add(dtSec, Mul(Mul(Num(2, 1), Kst), Xc)), denom)
        C2 == Div(Sub(Mul(Mul(Num(2, 1), Kst), Sub(One, Xc)), dtSec), denom)
    IN  [K |-> Kst, X |-> Xc, C0 |-> C0, C1 |-> C1, C2 |-> C2]

\* muskingumCoeffs without the stability guard
muskingumCoeffs_noGuard(Ksec, X, dtSec) ==
    LET Kst == MathMax(Ksec, KFloor)
        Xc == clamp(X, Zero, Num(1, 2))
        denom == Add(Mul(Mul(Num(2, 1), Kst), Sub(One, Xc)), dtSec)
        C0 == Div(Sub(dtSec, Mul(Mul(Num(2, 1), Kst), Xc)), denom)
        C1 == Div(Add(dtSec, Mul(Mul(Num(2, 1), Kst), Xc)), denom)
        C2 == Div(Sub(Mul(Mul(Num(2, 1), Kst), Sub(One, Xc)), dtSec), denom)
    IN  [K |-> Kst, X |-> Xc, C0 |-> C0, C1 |-> C1, C2 |-> C2]

\* lines 51-52: K raised to 1.01 times the least stable K when it is below it
StableK(K, Xc, dtSec) ==
    MathMax(K, Mul(Div(dtSec, Add(Mul(Num(2, 1), Sub(One, Xc)), Eps12)), KMargin))

\* lines 55-57: the coefficients over the common denominator
CoeffsOver(Kst, Xc, dtSec, denom) ==
    [K |-> Kst, X |-> Xc,
     C0 |-> Div(Sub(dtSec, Mul(Mul(Num(2, 1), Kst), Xc)), denom),
     C1 |-> Div(Add(dtSec, Mul(Mul(Num(2, 1), Kst), Xc)), denom),
     C2 |-> Div(Sub(Mul(Mul(Num(2, 1), Kst), Sub(One, Xc)), dtSec), denom)]

\* line 54: const denom = 2K(1 - X) + dt
CoeffsAt(Kst, Xc, dtSec) ==
    CHOOSE r \in {CoeffsOver(Kst, Xc, dtSec, denom) :
                    denom \in {Add(Mul(Mul(Num(2, 1), Kst), Sub(One, Xc)), dtSec)}} :
        TRUE

\* the floor of K, the clamp of X, then the steps above
ClampedCoeffs(K, Xc, dtSec) ==
    CHOOSE r \in {CoeffsAt(Kst, Xc, dtSec) : Kst \in {StableK(K, Xc, dtSec)}} : TRUE

muskingumCoeffs(Ksec, X, dtSec) ==
    CHOOSE r \in {ClampedCoeffs(K, Xc, dtSec) :
                    K \in {MathMax(Ksec, KFloor)}, Xc \in {clamp(X, Zero, Num(1, 2))}} :
        TRUE

\* one Muskingum time step, floored at 0
muskingumStep_noStorage(It, Itm1, Otm1, params) ==
    LET Ot == Add(Mul(params.C0, It), Mul(params.C1, Itm1))
    IN  MathMax(Zero, Ot)
muskingumStep(It, Itm1, Otm1, params) ==
    LET Ot == Add(Add(Mul(params.C0, It), Mul(params.C1, Itm1)),
                  Mul(params.C2, Otm1))
    IN  MathMax(Zero, Ot)

\* inflow[t] of a 0-based JavaScript array: undefined out of range
At(arr, t) == IF t >= 0 /\ t < Len(arr) THEN arr[t + 1] ELSE Undef
\* arr.at(-1), arr.at(-2)
Last(arr) == At(arr, Len(arr) - 1)
SecondLast(arr) == At(arr, Len(arr) - 2)

\* the for loop of muskingumRouteSeries from index t on
RECURSIVE RouteLoop(_, _, _, _, _, _)
RouteLoop(inflow, t, prevI, prevOut, out, params) ==
    IF t < Len(inflow)
    THEN CHOOSE r \in {RouteLoop(inflow, t + 1, At(inflow, t), Ot, Append(out, Ot), params) :
                         Ot \in {muskingumStep(At(inflow, t), prevI, prevOut, params)}} :
             TRUE
    ELSE out

\* muskingumRouteSeries whose lag-1 inflow starts at 0 instead of inflow[0]
muskingumRouteSeries_zeroLag(inflow, O0, params) ==
    RouteLoop(inflow, 0, Zero, O0, <<>>, params)

muskingumRouteSeries(inflow, O0, params) ==
    RouteLoop(inflow, 0, At(inflow, 0), O0, <<>>, params)

\* capInflowChange that clamps even when prev <= 0
capInflowChange_noGuard(prev, cand, maxPct) ==
    LET up == Mul(prev, Add(One, maxPct))
        dn == Mul(prev, Sub(One, maxPct))
    IN  MathMin(up, MathMax(dn, cand))

capInflowChange(prev, cand, maxPct) ==
    IF Le(prev, Zero) THEN cand
    ELSE LET up == Mul(prev, Add(One, maxPct))
             dn == Mul(prev, Sub(One, maxPct))
         IN  MathMin(up, MathMax(dn, cand))

\* Math.floor of a number without a 1e-12 part
MathFloor(x) == IF IsNum(x) THEN Num(x.v[1] \div x.v[2], 1) ELSE NaN
\* the integer a loop bound holds
IntOf(x) == x.v[1] \div x.v[2]

-----------------------------------------------------------------------------
(* estimateMuskingumParams: coarse and fine grid search on the SSE.        *)

\* search = {}: every field absent
NoSearch ==
    [KminH |-> Undef, KmaxH |-> Undef, Xmin |-> Undef, Xmax |-> Undef,
     KGrid |-> Undef, XGrid |-> Undef]

\* let best = null
NoBest ==
    [has |-> FALSE, sse |-> Zero,
     params |-> [K |-> Undef, X |-> Undef, C0 |-> Undef, C1 |-> Undef, C2 |-> Undef]]

\* the SSE loop over t < Ohat.length (= inflow.length = n): a time index
\* without an observation adds nothing
RECURSIVE SseLoop(_, _, _, _, _)
SseLoop(Ohat, outflowObs, n, t, sse) ==
    IF t < n
    THEN LET o == At(outflowObs, t)
         IN  IF isFiniteNumber(o)
             THEN CHOOSE r \in {SseLoop(Ohat, outflowObs, n, t + 1, Add(sse, Mul(e, e))) :
                                  e \in {Sub(At(Ohat, t), o)}} :
                      TRUE
             ELSE SseLoop(Ohat, outflowObs, n, t + 1, sse)
    ELSE sse

\* Better that also replaces best on an equal SSE
Better_lastWins(sse, params, best) ==
    IF ~best.has \/ Le(sse, best.sse)
    THEN [has |-> TRUE, sse |-> sse, params |-> params]
    ELSE best

\* line 146: best is replaced only by a strictly smaller SSE
Better(sse, params, best) ==
    IF ~best.has \/ Lt(sse, best.sse)
    THEN [has |-> TRUE, sse |-> sse, params |-> params]
    ELSE best

\* outflowObs.findIndex(isFiniteNumber): -1 when there is none
RECURSIVE FindIndexFrom(_, _)
FindIndexFrom(arr, t) ==
    IF t >= Len(arr) THEN -1
    ELSE IF isFiniteNumber(At(arr, t)) THEN t
    ELSE FindIndexFrom(arr, t + 1)
FirstObsIdx(arr) == FindIndexFrom(arr, 0)

\* lines 136-148: the routed series of a cell scored over its n values
\* (Ohat.length is inflow.length) and compared
ScoreSeries(Ohat, outflowObs, n, params, best) ==
    Better(SseLoop(Ohat, outflowObs, n, 0, Zero), params, best)

\* lines 133-148 for one cell.  The SSE loop reads the routed series only at
\* an index that has an observation: with one, the series is a value before
\* the loop starts; without any, the sum is 0 whatever the series, which is
\* then evaluated only for the cell that becomes best
ScoreCell(inflow, outflowObs, O0, params, best) ==
    IF FirstObsIdx(outflowObs) >= 0
    THEN CHOOSE r \in {ScoreSeries(Ohat, outflowObs, Len(inflow), params, best) :
                         Ohat \in {muskingumRouteSeries(inflow, O0, params)}} :
             TRUE
    ELSE ScoreSeries(muskingumRouteSeries(inflow, O0, params), outflowObs, Len(inflow),
                     params, best)

\* lines 126-127 and 130: the K (seconds) of row i and the X of column j of a
\* grid g of nK x nX cells
GridK(g, i) == Mul(Add(g.K0, Mul(Sub(g.K1, g.K0), Num(i, g.nK - 1))), Num(3600, 1))
GridX(g, j) == Add(g.X0, Mul(Sub(g.X1, g.X0), Num(j, g.nX - 1)))

\* lines 131-148: the cell of K and X; its parameters are a value before
\* the routing whenever the SSE loop reads the routed series
GridCell(inflow, outflowObs, O0, dtSeconds, K, X, best) ==
    IF FirstObsIdx(outflowObs) >= 0
    THEN CHOOSE r \in {ScoreCell(inflow, outflowObs, O0, params, best) :
                         params \in {muskingumCoeffs(K, X, dtSeconds)}} :
             TRUE
    ELSE ScoreCell(inflow, outflowObs, O0, muskingumCoeffs(K, X, dtSeconds), best)

\* the inner for loop (over X) of row i, for the columns j = lo .. hi - 1 in
\* increasing order: the first half of the columns, then the second half
\* starting from the best the first half left
RECURSIVE XLoop(_, _, _, _, _, _, _, _, _)
XLoop(inflow, outflowObs, O0, dtSeconds, g, i, lo, hi, best) ==
    IF hi = lo + 1
    THEN CHOOSE r \in {GridCell(inflow, outflowObs, O0, dtSeconds, K, X, best) :
                         K \in {GridK(g, i)}, X \in {GridX(g, lo)}} :
             TRUE
    ELSE CHOOSE r \in {XLoop(inflow, outflowObs, O0, dtSeconds, g, i,
                             (lo + hi) \div 2, hi, first) :
                         first \in {XLoop(inflow, outflowObs, O0, dtSeconds, g, i,
                                          lo, (lo + hi) \div 2, best)}} :
             TRUE

\* the outer for loop (over K) for the rows i = lo .. hi - 1 in increasing
\* order, split the same way
RECURSIVE KLoop(_, _, _, _, _, _, _, _)
KLoop(inflow, outflowObs, O0, dtSeconds, g, lo, hi, best) ==
    IF hi = lo + 1
    THEN XLoop(inflow, outflowObs, O0, dtSeconds, g, lo, 0, g.nX, best)
    ELSE CHOOSE r \in {KLoop(inflow, outflowObs, O0, dtSeconds, g,
                             (lo + hi) \div 2, hi, first) :
                         first \in {KLoop(inflow, outflowObs, O0, dtSeconds, g,
                                          lo, (lo + hi) \div 2, best)}} :
             TRUE

\* O0 taken from the inflow whether or not an outflow was observed
Anchor_firstInflow(inflow, outflowObs) == At(inflow, 0)
\* lines 120-121: O0, the first observed outflow or else the first inflow
Anchor(inflow, outflowObs) ==
    IF FirstObsIdx(outflowObs) >= 0
    THEN At(outflowObs, FirstObsIdx(outflowObs)) ELSE At(inflow, 0)

\* lines 153-157: the 9 x 9 grid around the coarse best parameters
FineGrid(coarse, KminH, KmaxH, Xmin, Xmax) ==
    [K0 |-> MathMax(Sub(Div(coarse.K, Num(3600, 1)), Num(1, 2)), KminH),
     K1 |-> MathMin(Add(Div(coarse.K, Num(3600, 1)), Num(1, 2)), KmaxH),
     X0 |-> MathMax(Sub(coarse.X, Num(5, 100)), Xmin),
     X1 |-> MathMin(Add(coarse.X, Num(5, 100)), Xmax),
     nK |-> 9, nX |-> 9]

\* lines 153-182: the fine search around the coarse best; best!.params is a
\* TypeError when no cell was evaluated (best still null)
FineSearch(inflow, outflowObs, O0, dtSeconds, KminH, KmaxH, Xmin, Xmax, best) ==
    IF ~best.has THEN [threw |-> TRUE, params |-> NoBest.params]
    ELSE [threw |-> FALSE,
          params |->
             KLoop(inflow, outflowObs, O0, dtSeconds,
                   FineGrid(best.params, KminH, KmaxH, Xmin, Xmax), 0, 9, best).params]

\* lines 120-150: the coarse search from the first observed outflow
CoarseGrid(KminH, KmaxH, Xmin, Xmax, KGrid, XGrid) ==
    [K0 |-> KminH, K1 |-> KmaxH, X0 |-> Xmin, X1 |-> Xmax,
     nK |-> IntOf(KGrid), nX |-> IntOf(XGrid)]

CoarseSearch(inflow, outflowObs, O0, dtSeconds, KminH, KmaxH, Xmin, Xmax, KGrid, XGrid) ==
    FineSearch(inflow, outflowObs, O0, dtSeconds, KminH, KmaxH, Xmin, Xmax,
               KLoop(inflow, outflowObs, O0, dtSeconds,
                     CoarseGrid(KminH, KmaxH, Xmin, Xmax, KGrid, XGrid),
                     0, IntOf(KGrid), NoBest))

\* the result is [threw, params]
estimateMuskingumParams(inflow, outflowObs, dtSeconds, search) ==
    CoarseSearch(inflow, outflowObs, Anchor(inflow, outflowObs), dtSeconds,
                 Coalesce(search.KminH, Num(1, 4)), Coalesce(search.KmaxH, Num(24, 1)),
                 Coalesce(search.Xmin, Zero), Coalesce(search.Xmax, Num(1, 2)),
                 MathMax(Num(5, 1), MathFloor(Coalesce(search.KGrid, Num(15, 1)))),
                 MathMax(Num(5, 1), MathFloor(Coalesce(search.XGrid, Num(11, 1)))))

-----------------------------------------------------------------------------
(* The inflow forecaster and the guards of the forecast loop.              *)

\* the ar1 sums over i = 1 .. m - 1
RECURSIVE Ar1Num(_, _)
Ar1Num(history, i) ==
    IF i < Len(history)
    THEN Add(Mul(At(history, i), At(history, i - 1)), Ar1Num(history, i + 1))
    ELSE Zero
RECURSIVE Ar1Den(_, _)
Ar1Den(history, i) ==
    IF i < Len(history)
    THEN Add(Mul(At(history, i - 1), At(history, i - 1)), Ar1Den(history, i + 1))
    ELSE Zero

\* the smoothing loop of the exp method from index i on
RECURSIVE ExpLoop(_, _, _, _)
ExpLoop(history, expAlpha, i, sm) ==
    IF i < Len(history)
    THEN ExpLoop(history, expAlpha, i + 1,
                 Add(Mul(expAlpha, At(history, i)), Mul(Sub(One, expAlpha), sm)))
    ELSE sm

forecastInflowNext(history, method, expAlpha) ==
    LET m == Len(history)
        It == At(history, m - 1)
        Itm1 == Coalesce(At(history, m - 2), It)
    IN  IF method = "linear" THEN MathMax(Zero, Add(It, Sub(It, Itm1)))
        ELSE IF method = "ar1"
        THEN IF m < 2 THEN It
             ELSE LET num == Ar1Num(history, 1)
                      den == Ar1Den(history, 1)
                      phi == IF den = Zero THEN Zero ELSE Div(num, den)
                  IN  MathMax(Zero, Mul(phi, It))
        ELSE IF method = "exp"
        THEN MathMax(Zero, ExpLoop(history, expAlpha, 1, At(history, 0)))
        ELSE MathMax(Zero, It)

\* the band 1 minute .. 7 days of scaleKByFlow, in seconds
KBandLo == Num(60, 1)
KBandHi == Num(7 * 24 * 3600, 1)

scaleKByFlow(Kbase, q, refQ, gamma) ==
    LET ratio == MathMax(KFloor, Div(q, MathMax(KFloor, refQ)))
        Keff == Mul(Kbase, MathPow(ratio, gamma))
    IN  MathMax(KBandLo, MathMin(KBandHi, Keff))

-----------------------------------------------------------------------------
(* The rating curve.                                                       *)

\* pairs.filter(keep) for a predicate given as the set of kept indices
RECURSIVE KeepFrom(_, _, _)
KeepFrom(arr, kept, t) ==
    IF t > Len(arr) THEN <<>>
    ELSE IF t \in kept THEN <<arr[t]>> \o KeepFrom(arr, kept, t + 1)
    ELSE KeepFrom(arr, kept, t + 1)
Filter(arr, kept) == KeepFrom(arr, kept, 1)

\* Hs sorted ascending (insertion into a sorted sequence)
RECURSIVE InsertSorted(_, _)
InsertSorted(x, sorted) ==
    IF sorted = <<>> THEN <<x>>
    ELSE IF Lt(sorted[1], x) THEN <<sorted[1]>> \o InsertSorted(x, Tail(sorted))
    ELSE <<x>> \o sorted
RECURSIVE SortAsc(_)
SortAsc(arr) == IF arr = <<>> THEN <<>> ELSE InsertSorted(arr[1], SortAsc(Tail(arr)))

\* the h0 candidate number i of 41 between h0Min and h0Max
H0Candidate(h0Min, h0Max, i) == Add(h0Min, Mul(Sub(h0Max, h0Min), Num(i, 40)))

\* the pairs a candidate h0 regresses on: q > 0 and h > h0
RowIndices(pairs, h0) ==
    {t \in 1..Len(pairs) : Lt(Zero, pairs[t].q) /\ Lt(h0, pairs[t].h)}

\* a candidate is skipped with fewer than 3 rows or a regression denominator
\* n * sumXX - sumX^2 below 1e-12 in magnitude.  The denominator is n times
\* the squared spread of x = log(h - h0) over the rows: it vanishes exactly
\* when every row has the same stage, and is far above 1e-12 for stages that
\* differ by the centimetres the model's stages differ by.
Admissible(pairs, h0) ==
    LET rows == RowIndices(pairs, h0)
    IN  /\ Cardinality(rows) >= 3
        /\ \E s, t \in rows : pairs[s].h # pairs[t].h

\* lines 216-231: the slope b of the regression of log q on log (h - h0) has
\* the sign of the covariance of the rows: negative when the discharge never
\* rises and somewhere falls as the stage rises, positive when it never falls
\* and somewhere rises, not known otherwise
Slope(pairs, h0) ==
    LET rows == RowIndices(pairs, h0)
        up == \E s, t \in rows : Lt(pairs[s].h, pairs[t].h) /\ Lt(pairs[s].q, pairs[t].q)
        down == \E s, t \in rows : Lt(pairs[s].h, pairs[t].h) /\ Lt(pairs[t].q, pairs[s].q)
    IN  IF up /\ ~down THEN SymPos
        ELSE IF down /\ ~up THEN SymNeg
        ELSE Sym

\* fitRatingCurve: the set of curves it can return.  The regression runs on
\* logarithms, so a and b of a fitted curve are unnamed reals (a = exp(c) > 0)
\* and the candidate of least SSE is one of the admissible candidates.
fitRatingCurve(pairs) ==
    LET hIdx == {t \in 1..Len(pairs) : isFiniteNumber(pairs[t].h)}
        qIdx == {t \in 1..Len(pairs) : isFiniteNumber(pairs[t].q)}
        Hs == SortAsc([t \in 1..Len(Filter(pairs, hIdx)) |-> Filter(pairs, hIdx)[t].h])
        n == Len(Hs)
        p10 == At(Hs, (n - 1) \div 10)
        p40 == At(Hs, (4 * (n - 1)) \div 10)
        h0Min == MathMin(p10, Sub(p40, Num(5, 100)))
        h0Max == MathMax(p40, Add(p10, Num(5, 100)))
        good == {i \in 0..40 : Admissible(pairs, H0Candidate(h0Min, h0Max, i))}
    IN  IF n < 3 \/ Cardinality(qIdx) < 3
        THEN {[a |-> One, b |-> One, h0 |-> IF n = 0 THEN PosInf ELSE Hs[1]]}
        ELSE IF good = {}
        THEN {[a |-> One, b |-> One, h0 |-> Hs[1]]}
        ELSE {[a |-> SymPos, b |-> Slope(pairs, H0Candidate(h0Min, h0Max, i)),
               h0 |-> H0Candidate(h0Min, h0Max, i)] : i \in good}

qFromH(h, curve) ==
    LET head == MathMax(Sub(h, curve.h0), Zero)
    IN  Mul(curve.a, MathPow(head, curve.b))

hFromQ(q, curve) ==
    IF Le(q, Zero) THEN curve.h0
    ELSE Add(curve.h0, MathPow(Div(q, curve.a), Div(One, curve.b)))

-----------------------------------------------------------------------------
(* Dates.  A time value is a whole number of milliseconds since the epoch, *)
(* held as a day number d and the milliseconds ms within the day; an       *)
(* Invalid Date has no time value.                                         *)

DayMs == 86400000
\* a Date holds at most 100,000,000 days either side of the epoch
MaxDay == 100000000

Time(d, ms) == [k |-> "time", d |-> d, ms |-> ms]
InvalidDate == [k |-> "invalid", d |-> 0, ms |-> 0]
IsValidDate(T) == T.k = "time"

\* new Date(T.getTime() + delta) for a whole number delta of milliseconds
PlusMs(T, delta) ==
    IF ~IsValidDate(T) THEN InvalidDate
    ELSE LET tot == T.ms + delta
             d == T.d + (tot \div DayMs)
             ms == tot % DayMs
         IN  IF /\ d >= -MaxDay
                /\ d < MaxDay \/ (d = MaxDay /\ ms = 0)
             THEN Time(d, ms)
             ELSE InvalidDate

\* new Date(t) for the t of a Sample (a number of milliseconds or a string)
\* or for Date.now(): an unparsable string gives an Invalid Date
NewDate(t) == IF t.k = "time" THEN PlusMs(t, 0) ELSE InvalidDate

\* forecastTime: the product step * dtSeconds * 1000 is truncated to whole
\* milliseconds when the Date is built
ForecastTime_noStep(T, s, dtSeconds) ==
    LET delta == Mul(dtSeconds, Num(1000, 1))
    IN  IF ~IsNum(delta) THEN InvalidDate ELSE PlusMs(T, IntOf(delta))
ForecastTime_invalid(T, s, dtSeconds) == InvalidDate
ForecastTime(T, s, dtSeconds) ==
    LET delta == Mul(Mul(Num(s, 1), dtSeconds), Num(1000, 1))
    IN  IF ~IsNum(delta) THEN InvalidDate ELSE PlusMs(T, IntOf(delta))

\* toISOString().slice(0, 16).replace('T', ' '), "YYYY-MM-DD HH:mm" in UTC:
\* the day and the minute of the day; the seconds and milliseconds are cut
ToISOMinute(T) == <<T.d, T.ms \div 60000>>

\* outside a call of dynamicRouteAndForecastN its locals hold nothing
FrameIdle ==
    /\ opts = Undef /\ I = <<>> /\ Oobs = <<>> /\ mk = Undef /\ Orouted = <<>>
    /\ rcPairs = <<>> /\ rc = Undef /\ histI = <<>> /\ prevO = Undef /\ prevH = Undef
    /\ lastT = InvalidDate /\ step = 0 /\ forecasts = <<>>

-----------------------------------------------------------------------------
(* Specification of muskingumCoeffs as a function of its arguments.        *)

KsecVals == {Num(-5, 1), Num(0, 1), Num(1, 2000000), Num(60, 1), Num(101, 1),
             Num(900, 1), Num(1800, 1), Num(1818, 1), Num(3600, 1),
             Num(86400, 1)}
XVals == {Num(-1, 10), Num(0, 1), Num(1, 4), Num(1, 2), Num(7, 10)}
DtVals == {Num(200, 1), Num(900, 1), Num(3600, 1)}
\* sub-microsecond K and dt, where the floor 1e-6 decides the result
KsecTiny == {Num(-5, 1), Num(0, 1), Num(1, 2000000), Num(1, 1000000)}
DtTiny == {Num(1, 2000000)}
CoeffArgs ==
    [Ksec : KsecVals, X : XVals, dtSec : DtVals]
        \cup [Ksec : KsecTiny, X : XVals, dtSec : DtTiny]

InitCoeffs ==
    /\ pc = "muskingumCoeffs"
    /\ args \in CoeffArgs
    /\ ret = Undef
    /\ FrameIdle

CallMuskingumCoeffs ==
    /\ pc = "muskingumCoeffs"
    /\ ret' = muskingumCoeffs(args.Ksec, args.X, args.dtSec)
    /\ pc' = "returned"
    /\ UNCHANGED <<args, fvars>>

NextCoeffs == CallMuskingumCoeffs

SpecCoeffs == InitCoeffs /\ [][NextCoeffs]_vars

\* the clamped X of the call, and 2 (1 - X) for it
ClampedX == clamp(args.X, Zero, Num(1, 2))
TwoOneMinusX == Mul(Num(2, 1), Sub(One, ClampedX))
CoeffsReturned == pc = "returned"

\* C1: for every K, X and dt > 0 the returned coefficients satisfy
\* C0 + C1 + C2 = 1, also when X is clamped, K floored or K raised.
C1_Conservation ==
    CoeffsReturned /\ Lt(Zero, args.dtSec)
        => Add(Add(ret.C0, ret.C1), ret.C2) = One

\* a call in which K was floored, X clamped and K then raised
C1_Witness ==
    /\ CoeffsReturned
    /\ Lt(args.Ksec, KFloor)
    /\ args.X # ret.X
    /\ Lt(KFloor, ret.K)

C3_Stable ==
    CoeffsReturned /\ Lt(Zero, args.dtSec)
        => /\ Le(args.dtSec, Mul(Mul(Num(2, 1), ret.K), Sub(One, ret.X)))
           /\ Lt(Mul(args.Ksec, TwoOneMinusX), args.dtSec)
                => Lt(Div(args.dtSec, TwoOneMinusX), ret.K)

\* a call whose supplied K violates the bound, with a clamped X
C3_Witness ==
    /\ CoeffsReturned
    /\ Lt(Mul(args.Ksec, TwoOneMinusX), args.dtSec)
    /\ args.X # ret.X
    /\ Lt(Zero, args.Ksec)

-----------------------------------------------------------------------------
(* Specification of capInflowChange as a function of its arguments.        *)

PrevVals == {Num(-1, 1), Num(0, 1), Num(1, 2), Num(100, 1), Num(300, 1)}
CandVals == {Num(-10, 1), Num(0, 1), Num(50, 1), Num(88, 1), Num(100, 1),
             Num(112, 1), Num(113, 1), Num(400, 1)}
MaxPctVals == {Num(0, 1), Num(12, 100), Num(1, 2), Num(1, 1), Num(3, 2)}

InitCap ==
    /\ pc = "capInflowChange"
    /\ args \in [prev : PrevVals, cand : CandVals, maxPct : MaxPctVals]
    /\ ret = Undef
    /\ FrameIdle

CallCapInflowChange ==
    /\ pc = "capInflowChange"
    /\ ret' = capInflowChange(args.prev, args.cand, args.maxPct)
    /\ pc' = "returned"
    /\ UNCHANGED <<args, fvars>>

NextCap == CallCapInflowChange

SpecCap == InitCap /\ [][NextCap]_vars

CapLo == Mul(args.prev, Sub(One, args.maxPct))
CapHi == Mul(args.prev, Add(One, args.maxPct))

\* C9: for P > 0 and maxPct >= 0 the result lies in
\* [P (1 - maxPct), P (1 + maxPct)] and is the candidate when the candidate
\* is already in that interval; for P <= 0 the candidate is returned as is.
C9_Capped ==
    pc = "returned" /\ Le(Zero, args.maxPct)
        => IF Lt(Zero, args.prev)
           THEN /\ Le(CapLo, ret) /\ Le(ret, CapHi)
                /\ Le(CapLo, args.cand) /\ Le(args.cand, CapHi)
                     => ret = args.cand
           ELSE ret = args.cand

\* a call with P > 0 whose candidate lies outside the interval and is cut
C9_Witness ==
    /\ pc = "returned"
    /\ Lt(Zero, args.prev)
    /\ Lt(CapHi, args.cand)
    /\ ret = CapHi

-----------------------------------------------------------------------------
(* Specification of muskingumRouteSeries as a function of its arguments.   *)

MaxRouteLen == 3

RECURSIVE SeqsUpTo(_, _)
SeqsUpTo(S, n) ==
    IF n = 0 THEN {<<>>}
    ELSE LET shorter == SeqsUpTo(S, n - 1)
         IN  shorter \cup {Append(q, x) : q \in {r \in shorter : Len(r) = n - 1}, x \in S}

RouteInflowVals == {Num(0, 1), Num(1, 1), Num(5, 1)}
RouteO0Vals == {Num(0, 1), Num(2, 1)}
RouteParams ==
    {muskingumCoeffs(Num(900, 1), Num(0, 1), Num(900, 1)),
     muskingumCoeffs(Num(3600, 1), Num(1, 2), Num(900, 1))}

InitRoute ==
    /\ pc = "muskingumRouteSeries"
    /\ args \in [inflow : SeqsUpTo(RouteInflowVals, MaxRouteLen),
                  O0 : RouteO0Vals, params : RouteParams]
    /\ ret = <<>>
    /\ FrameIdle

CallMuskingumRouteSeries ==
    /\ pc = "muskingumRouteSeries"
    /\ ret' = muskingumRouteSeries(args.inflow, args.O0, args.params)
    /\ pc' = "returned"
    /\ UNCHANGED <<args, fvars>>

NextRoute == CallMuskingumRouteSeries

SpecRoute == InitRoute /\ [][NextRoute]_vars

\* C10: the routed series is as long as the inflow series, its first element
\* is muskingumStep(I0, I0, O_initial) and its element t > 0 is
\* muskingumStep(I_t, I_{t-1}, out_{t-1}).
C10_RouteSeries ==
    pc = "returned"
        => /\ Len(ret) = Len(args.inflow)
           /\ \A t \in 1..Len(ret) :
                ret[t] = IF t = 1
                         THEN muskingumStep(args.inflow[1], args.inflow[1],
                                            args.O0, args.params)
                         ELSE muskingumStep(args.inflow[t], args.inflow[t - 1],
                                            ret[t - 1], args.params)

\* a routed series of at least two elements in which the floor at 0 acted
C10_Witness ==
    /\ pc = "returned"
    /\ Len(ret) >= 2
    /\ \E t \in 2..Len(ret) : ret[t] = Zero /\ ret[t - 1] # Zero

-----------------------------------------------------------------------------
(* Specification of estimateMuskingumParams as a function of its           *)
(* arguments.                                                              *)

\* search ranges in hours: K on the odd hours 1, 3, .. 29 with the default
\* X range, the same with X held at 0, and the default grid
SearchOddHours ==
    [KminH |-> One, KmaxH |-> Num(29, 1), Xmin |-> Undef, Xmax |-> Undef,
     KGrid |-> Undef, XGrid |-> Undef]
SearchOddHoursX0 ==
    [KminH |-> One, KmaxH |-> Num(29, 1), Xmin |-> Undef, Xmax |-> Zero,
     KGrid |-> Undef, XGrid |-> Undef]

\* the outflow a reach with storage constant KhStar hours and weight XStar
\* turns the inflow into, without noise
Generated(inflow, KhStar, XStar, dtSeconds) ==
    muskingumRouteSeries(inflow, At(inflow, 0),
                         muskingumCoeffs(Mul(KhStar, Num(3600, 1)), XStar, dtSeconds))

\* a unit step of inflow observed through known parameters
PulseInflow == <<Zero, One>>
RecoveryCase(KhStar, XStar, search) ==
    [inflow |-> PulseInflow,
     outflowObs |-> Generated(PulseInflow, KhStar, XStar, Num(1800, 1)),
     dtSeconds |-> Num(1800, 1), search |-> search,
     truth |-> [known |-> TRUE, Kh |-> KhStar, X |-> XStar]]
RecoveryCases ==
    {RecoveryCase(Kh, Zero, SearchOddHoursX0) :
        Kh \in {One, Num(3, 2), Num(2, 1), Num(3, 1), Num(4, 1), Num(5, 1),
                Num(15, 1), Num(16, 1)}}
      \cup {RecoveryCase(Kh, Zero, SearchOddHours) :
               Kh \in {One, Num(3, 2), Num(2, 1), Num(4, 1)}}

\* a search range below the K that a 4 h time step allows, and a grid of
\* 5 x 5 cells asked for as 5.9 x 3
SearchBelowStable ==
    [KminH |-> Num(1, 4), KmaxH |-> One, Xmin |-> Undef, Xmax |-> Undef,
     KGrid |-> Undef, XGrid |-> Undef]
SearchSmallGrid ==
    [KminH |-> Undef, KmaxH |-> Undef, Xmin |-> Undef, Xmax |-> Undef,
     KGrid |-> Num(59, 10), XGrid |-> Num(3, 1)]
Searches ==
    {NoSearch, SearchOddHours, SearchOddHoursX0, SearchBelowStable, SearchSmallGrid}

NoTruth == [known |-> FALSE, Kh |-> Zero, X |-> Zero]
EstimateCase(inflow, outflowObs, dtSeconds, search) ==
    [inflow |-> inflow, outflowObs |-> outflowObs, dtSeconds |-> dtSeconds,
     search |-> search, truth |-> NoTruth]

\* no outflow observed at all: every SSE is 0
BlindInflows ==
    {<<>>, <<Num(5, 1)>>, PulseInflow, <<Num(100, 1), Num(200, 1), Num(200, 1)>>}
BlindCases ==
    {EstimateCase(inflow, obs, dt, search) :
        inflow \in BlindInflows, obs \in {<<>>, <<Undef, Undef>>},
        dt \in {Num(900, 1), Num(3600, 1), Num(14400, 1)}, search \in Searches}

\* the outflow observed at some of the time indices only: at the first or
\* at the second index of the unit step, and at the second index of other
\* inflows searched over K = 1, 2, .. 5 h with X held at 0
SearchFewHours ==
    [KminH |-> One, KmaxH |-> Num(5, 1), Xmin |-> Undef, Xmax |-> Zero,
     KGrid |-> Num(5, 1), XGrid |-> Undef]
PartialCases ==
    {EstimateCase(PulseInflow, obs, Num(1800, 1), search) :
        obs \in {<<Undef, Zero>>, <<Zero, Undef>>},
        search \in {SearchOddHours, SearchOddHoursX0}}
      \cup {EstimateCase(PulseInflow, obs, Num(1800, 1), SearchOddHoursX0) :
               obs \in {<<Num(1, 5), Undef>>, <<One>>, <<One, Undef>>}}
      \cup {EstimateCase(inflow, obs, Num(1800, 1), SearchFewHours) :
               inflow \in {<<One, One>>, <<One, Zero>>, <<Zero, One>>, <<Zero, Zero>>},
               obs \in {<<Undef, Zero>>, <<Undef, One>>, <<Undef, Num(1, 5)>>}}

EstimateArgs == RecoveryCases \cup BlindCases \cup PartialCases

InitEstimate ==
    /\ pc = "estimateMuskingumParams"
    /\ args \in EstimateArgs
    /\ ret = Undef
    /\ FrameIdle

CallEstimateMuskingumParams ==
    /\ pc = "estimateMuskingumParams"
    /\ ret' = estimateMuskingumParams(args.inflow, args.outflowObs, args.dtSeconds,
                                      args.search)
    /\ pc' = "returned"
    /\ UNCHANGED <<args, fvars>>

NextEstimate == CallEstimateMuskingumParams

SpecEstimate == InitEstimate /\ [][NextEstimate]_vars

EstimateReturned == pc = "returned" /\ ~ret.threw

\* the largest cell of a fine grid: an eighth of 1 h in K, of 0.1 in X
FineCellK == Num(450, 1)
FineCellX == Num(1, 80)
Near(a, b, width) == Le(Sub(a, b), width) /\ Le(Sub(b, a), width)

\* C11: for an outflow generated without noise from known (K*, X*) inside the
\* search bounds, the returned (K, X) is within one fine-grid cell of
\* (K*, X*).
C11_RecoversWithinFineCell ==
    EstimateReturned /\ args.truth.known
        => /\ Near(ret.params.K, Mul(args.truth.Kh, Num(3600, 1)), FineCellK)
           /\ Near(ret.params.X, args.truth.X, FineCellX)

\* the coarse grid of the call, with the defaults of lines 112-117
CoarseGridOf(search) ==
    CoarseGrid(Coalesce(search.KminH, Num(1, 4)), Coalesce(search.KmaxH, Num(24, 1)),
               Coalesce(search.Xmin, Zero), Coalesce(search.Xmax, Num(1, 2)),
               MathMax(Num(5, 1), MathFloor(Coalesce(search.KGrid, Num(15, 1)))),
               MathMax(Num(5, 1), MathFloor(Coalesce(search.XGrid, Num(11, 1)))))

\* the cells of a grid numbered 0, 1, .. in iteration order (K outer, X
\* inner), the parameters of a cell and the SSE of the call for parameters
CellIds(g) == 0..(g.nK * g.nX - 1)
CellParams(g, c) ==
    muskingumCoeffs(GridK(g, c \div g.nX), GridX(g, c % g.nX), args.dtSeconds)
RoutedSse(Ohat) == SseLoop(Ohat, args.outflowObs, Len(args.inflow), 0, Zero)
RoutedFrom(params) ==
    muskingumRouteSeries(args.inflow, Anchor(args.inflow, args.outflowObs), params)
CellSse(params) ==
    IF FirstObsIdx(args.outflowObs) >= 0
    THEN CHOOSE r \in {RoutedSse(Ohat) : Ohat \in {RoutedFrom(p) : p \in {params}}} : TRUE
    ELSE RoutedSse(RoutedFrom(params))
GridSses(g) == [c \in CellIds(g) |-> CellSse(CellParams(g, c))]

\* the first cell, in iteration order, whose SSE no cell undercuts
FirstMin(sses) ==
    CHOOSE c \in DOMAIN sses :
        \A d \in DOMAIN sses :
            IF d < c THEN Lt(sses[c], sses[d]) ELSE ~Lt(sses[d], sses[c])

Blind == \A t \in 1..Len(args.outflowObs) : ~isFiniteNumber(args.outflowObs[t])

\* C12: the returned parameters are those of the first cell, in the order
\* coarse stage then fine stage, K outer and X inner, whose SSE is minimal
\* over the evaluated cells; with every observation missing they are the
\* coefficients of the first coarse cell (KminH, Xmin).
C12_FirstMinimum ==
    EstimateReturned =>
        \E g \in {CoarseGridOf(args.search)} :
        \E cs \in {GridSses(g)} :
        \E cb \in {FirstMin(cs)} :
        \E fg \in {FineGrid(CellParams(g, cb), g.K0, g.K1, g.X0, g.X1)} :
        \E fs \in {GridSses(fg)} :
        \E fb \in {FirstMin(fs)} :
            /\ ret.params = IF Lt(fs[fb], cs[cb]) THEN CellParams(fg, fb)
                            ELSE CellParams(g, cb)
            /\ Blind => ret.params = muskingumCoeffs(Mul(g.K0, Num(3600, 1)), g.X0,
                                                     args.dtSeconds)

\* a call in which several coarse cells share the least coarse SSE and a
\* cell of the fine stage undercuts them
C12_Witness ==
    /\ EstimateReturned
    /\ ~Blind
    /\ \E g \in {CoarseGridOf(args.search)} :
       \E cs \in {GridSses(g)} :
          /\ \E c, d \in DOMAIN cs : c # d /\ cs[c] = cs[d] /\ c = FirstMin(cs)
          /\ Lt(CellSse(ret.params), cs[FirstMin(cs)])

\* the half-widths of the fine window of lines 154-157, K in seconds
FineHalfK == Num(1800, 1)
FineHalfX == Num(5, 100)
Within(lo, x, hi) == Le(lo, x) /\ Le(x, hi)

\* C13: every (K, X) evaluated in the fine stage lies within the search
\* bounds and within 0.5 h and 0.05 of the coarse optimum, whatever dt is.
C13_FineCandidatesInBounds ==
    EstimateReturned =>
        \E g \in {CoarseGridOf(args.search)} :
        \E coarse \in {CellParams(g, FirstMin(GridSses(g)))} :
        \E fg \in {FineGrid(coarse, g.K0, g.K1, g.X0, g.X1)} :
            \A i \in 0..(fg.nK - 1), j \in 0..(fg.nX - 1) :
                /\ Within(Mul(g.K0, Num(3600, 1)), GridK(fg, i), Mul(g.K1, Num(3600, 1)))
                /\ Within(g.X0, GridX(fg, j), g.X1)
                /\ Near(GridK(fg, i), coarse.K, FineHalfK)
                /\ Near(GridX(fg, j), coarse.X, FineHalfX)

\* the time indices of the routed series that have an observation, the
\* anchor and the loss as the sum over those indices
Observed == {t \in 0..(Len(args.inflow) - 1) : isFiniteNumber(At(args.outflowObs, t))}
AnyObserved == {t \in 0..(Len(args.outflowObs) - 1) : isFiniteNumber(At(args.outflowObs, t))}
FirstAvailable ==
    IF AnyObserved = {} THEN At(args.inflow, 0)
    ELSE At(args.outflowObs, CHOOSE t \in AnyObserved : \A u \in AnyObserved : t <= u)
RECURSIVE SumSquares(_, _)
SumSquares(Ohat, S) ==
    IF S = {} THEN Zero
    ELSE LET t == CHOOSE u \in S : \A w \in S : u <= w
             e == Sub(At(Ohat, t), At(args.outflowObs, t))
         IN  Add(Mul(e, e), SumSquares(Ohat, S \ {t}))
Loss(params) ==
    IF Observed = {} THEN Zero
    ELSE CHOOSE r \in {SumSquares(Ohat, Observed) :
                          Ohat \in {muskingumRouteSeries(args.inflow, FirstAvailable, p) :
                                       p \in {params}}} : TRUE

\* C17: the returned parameters minimise, over the coarse and fine cells, the
\* sum over the observed time indices of (routed - observed)^2, a missing
\* observation adding nothing, of the series routed from the first available
\* observed outflow, or from the first inflow when nothing was observed.
C17_LossOverObserved ==
    EstimateReturned =>
        \E g \in {CoarseGridOf(args.search)} :
        \E fg \in {FineGrid(CellParams(g, FirstMin(GridSses(g))), g.K0, g.K1, g.X0, g.X1)} :
        \E least \in {Loss(ret.params)} :
            /\ least = CellSse(ret.params)
            /\ \A c \in CellIds(g) : ~Lt(Loss(CellParams(g, c)), least)
            /\ \A c \in CellIds(fg) : ~Lt(Loss(CellParams(fg, c)), least)

\* a call whose first observation comes after the first time index and
\* differs from the first inflow, with a positive least loss
C17_Witness ==
    /\ EstimateReturned
    /\ Observed # {}
    /\ ~isFiniteNumber(At(args.outflowObs, 0))
    /\ FirstAvailable # At(args.inflow, 0)
    /\ Lt(Zero, Loss(ret.params))

-----------------------------------------------------------------------------
(* Specification of fitRatingCurve as a function of its argument.          *)

MaxFitLen == 4

\* pairs over three stages with a discharge, and pairs that lack the stage
\* or the discharge
FitPairVals ==
    {[h |-> Num(2, 1), q |-> Num(100, 1)], [h |-> Num(5, 2), q |-> Num(100, 1)],
     [h |-> Num(3, 1), q |-> Num(100, 1)], [h |-> Undef, q |-> Num(100, 1)],
     [h |-> Num(2, 1), q |-> Undef]}

InitFit ==
    /\ pc = "fitRatingCurve"
    /\ args \in [pairs : SeqsUpTo(FitPairVals, MaxFitLen)]
    /\ ret = Undef
    /\ FrameIdle

CallFitRatingCurve ==
    /\ pc = "fitRatingCurve"
    /\ ret' \in fitRatingCurve(args.pairs)
    /\ pc' = "returned"
    /\ UNCHANGED <<args, fvars>>

NextFit == CallFitRatingCurve

SpecFit == InitFit /\ [][NextFit]_vars

\* the valid stages and discharges of the call, the stage at a rank of the
\* valid stages in ascending order, and the searched range of h0
ValidStages == {t \in 1..Len(args.pairs) : isFiniteNumber(args.pairs[t].h)}
ValidDischarges == {t \in 1..Len(args.pairs) : isFiniteNumber(args.pairs[t].q)}
StageAtRank(r) ==
    CHOOSE x \in {args.pairs[t].h : t \in ValidStages} :
        /\ Cardinality({t \in ValidStages : Lt(args.pairs[t].h, x)}) <= r
        /\ Cardinality({t \in ValidStages : Le(args.pairs[t].h, x)}) > r
SearchedLo ==
    MathMin(StageAtRank((Cardinality(ValidStages) - 1) \div 10),
            Sub(StageAtRank((4 * (Cardinality(ValidStages) - 1)) \div 10), Num(5, 100)))
SearchedHi ==
    MathMax(StageAtRank((4 * (Cardinality(ValidStages) - 1)) \div 10),
            Add(StageAtRank((Cardinality(ValidStages) - 1) \div 10), Num(5, 100)))
\* three pairs or more with a positive discharge above h0, not all at one stage
Regressable(h0) ==
    \E r, s, t \in 1..Len(args.pairs) :
        /\ r # s /\ r # t /\ s # t
        /\ \A u \in {r, s, t} : Lt(Zero, args.pairs[u].q) /\ Lt(h0, args.pairs[u].h)
        /\ \E u, v \in 1..Len(args.pairs) :
              /\ Lt(Zero, args.pairs[u].q) /\ Lt(h0, args.pairs[u].h)
              /\ Lt(Zero, args.pairs[v].q) /\ Lt(h0, args.pairs[v].h)
              /\ args.pairs[u].h # args.pairs[v].h
Degenerate ==
    \/ Cardinality(ValidStages) < 3
    \/ Cardinality(ValidDischarges) < 3
    \/ \A i \in 0..40 :
          ~Regressable(Add(SearchedLo, Mul(Sub(SearchedHi, SearchedLo), Num(i, 40))))

\* C18: fitRatingCurve returns; with fewer than 3 valid stages or discharges,
\* or no admissible h0 candidate, it returns a = 1, b = 1 and h0 the least
\* valid stage; otherwise the h0 it returns is an admissible candidate within
\* the searched range.
C18_FitNeverFails ==
    pc = "returned" =>
        IF Degenerate
        THEN \E t \in ValidStages :
                /\ \A u \in ValidStages : ~Lt(args.pairs[u].h, args.pairs[t].h)
                /\ ret = [a |-> One, b |-> One, h0 |-> args.pairs[t].h]
        ELSE /\ Within(SearchedLo, ret.h0, SearchedHi)
             /\ Regressable(ret.h0)

-----------------------------------------------------------------------------
(* Specification of qFromH and hFromQ as functions of their arguments.     *)

\* a falling and a rising limb, and too few pairs for a fit
FallingLimb ==
    <<[h |-> Num(2, 1), q |-> Num(100, 1)], [h |-> Num(5, 2), q |-> Num(90, 1)],
      [h |-> Num(3, 1), q |-> Num(80, 1)]>>
RisingLimb ==
    <<[h |-> Num(2, 1), q |-> Num(80, 1)], [h |-> Num(5, 2), q |-> Num(90, 1)],
      [h |-> Num(3, 1), q |-> Num(100, 1)]>>
FewPairs == <<[h |-> Num(2, 1), q |-> Num(100, 1)]>>

\* curves with a finite datum that the code returns or uses: fitted ones, the
\* fallback of fitRatingCurve and the default of dynamicRouteAndForecastN
RatingCurves ==
    fitRatingCurve(FallingLimb) \cup fitRatingCurve(RisingLimb)
        \cup fitRatingCurve(FewPairs)
        \cup {[a |-> One, b |-> Num(12, 10), h0 |-> h0] : h0 \in {Zero, Num(2, 1)}}
\* stages and discharges: at, below and above the data of the curves
RatingInputs ==
    {Num(-1, 1), Zero, Num(1, 1), Num(39, 20), Num(2, 1), Num(3, 1)}

InitRating ==
    /\ pc \in {"qFromH", "hFromQ"}
    /\ args \in [x : RatingInputs, rc : RatingCurves]
    /\ ret = Undef
    /\ FrameIdle

CallQFromH ==
    /\ pc = "qFromH"
    /\ ret' = qFromH(args.x, args.rc)
    /\ pc' = "returned qFromH"
    /\ UNCHANGED <<args, fvars>>

CallHFromQ ==
    /\ pc = "hFromQ"
    /\ ret' = hFromQ(args.x, args.rc)
    /\ pc' = "returned hFromQ"
    /\ UNCHANGED <<args, fvars>>

NextRating == CallQFromH \/ CallHFromQ

SpecRating == InitRating /\ [][NextRating]_vars

\* C21: for every curve the code returns or uses, qFromH is 0 at every stage
\* h <= h0 and hFromQ is h0 at every discharge q <= 0.
C21_BelowDatum ==
    /\ pc = "returned qFromH" /\ Le(args.x, args.rc.h0) => ret = Zero
    /\ pc = "returned hFromQ" /\ Le(args.x, Zero) => ret = args.rc.h0

-----------------------------------------------------------------------------
(* Specification of forecastInflowNext as a function of its arguments.     *)

MaxHist == 3

HistVals == {Num(-2, 1), Zero, One, Num(3, 1)}
InflowMethods == {"persistence", "linear", "ar1", "exp"}
AlphaVals == {Num(3, 10), Num(1, 2)}

InitInflow ==
    /\ pc = "forecastInflowNext"
    /\ args \in [history : SeqsUpTo(HistVals, MaxHist) \ {<<>>},
                  method : InflowMethods, expAlpha : AlphaVals]
    /\ ret = Undef
    /\ FrameIdle

CallForecastInflowNext ==
    /\ pc = "forecastInflowNext"
    /\ ret' = forecastInflowNext(args.history, args.method, args.expAlpha)
    /\ pc' = "returned"
    /\ UNCHANGED <<args, fvars>>

NextInflowCall == CallForecastInflowNext

SpecInflow == InitInflow /\ [][NextInflowCall]_vars

\* the sums of the lag-1 least squares over the entries 2 .. i of a history,
\* and the smoothed level at its entry i
RECURSIVE LagProducts(_, _)
LagProducts(h, i) ==
    IF i < 2 THEN Zero ELSE Add(LagProducts(h, i - 1), Mul(h[i], h[i - 1]))
RECURSIVE LagSquares(_, _)
LagSquares(h, i) ==
    IF i < 2 THEN Zero ELSE Add(LagSquares(h, i - 1), Mul(h[i - 1], h[i - 1]))
RECURSIVE Level(_, _, _)
Level(h, alpha, i) ==
    IF i = 1 THEN h[1]
    ELSE Add(Mul(alpha, h[i]), Mul(Sub(One, alpha), Level(h, alpha, i - 1)))
Phi(h) ==
    IF LagSquares(h, Len(h)) = Zero THEN Zero
    ELSE Div(LagProducts(h, Len(h)), LagSquares(h, Len(h)))

\* the forecast of each method before the floor at 0; a history of length 1
\* has no second-last value and extrapolates from the last one alone
Unfloored(h, method, alpha) ==
    IF method = "persistence" THEN h[Len(h)]
    ELSE IF method = "linear"
    THEN Add(h[Len(h)], Sub(h[Len(h)], IF Len(h) = 1 THEN h[1] ELSE h[Len(h) - 1]))
    ELSE IF method = "ar1" THEN Mul(Phi(h), h[Len(h)])
    ELSE Level(h, alpha, Len(h))

\* C23: for every method and every non-empty history, of length 1 included,
\* forecastInflowNext returns the forecast of the method floored at 0, with
\* phi = 0 for ar1 when the denominator is 0.
C23_FlooredForecast ==
    pc = "returned" =>
        /\ Le(Zero, ret)
        /\ ret = MathMax(Zero, Unfloored(args.history, args.method, args.expAlpha))

-----------------------------------------------------------------------------
(* dynamicRouteAndForecastN: one call, from a window drawn at the start to *)
(* the returned forecasts or the exception that leaves the function.       *)

\* JavaScript values that are not numbers
Bool(b) == [k |-> "bool", b |-> b]
Str(x) == [k |-> "str", s |-> x]
Obj(r) == [k |-> "obj", o |-> r]

\* arr.slice(-n) for 0 <= n <= arr.length: -0 is 0, so slice(-0) is the whole
\* array
SliceLast(arr, n) ==
    IF n = 0 THEN arr ELSE SubSeq(arr, Len(arr) - n + 1, Len(arr))

Min(a, b) == IF a < b THEN a ELSE b

\* downstream.findIndex((o) => o !== undefined) from index t on
RECURSIVE FindDefinedFrom(_, _)
FindDefinedFrom(arr, t) ==
    IF t >= Len(arr) THEN -1
    ELSE IF At(arr, t).k # "undef" THEN t
    ELSE FindDefinedFrom(arr, t + 1)

\* the samples with both a stage and a discharge
RecentPairs(samples) ==
    Filter(samples, {t \in 1..Len(samples) :
                        samples[t].h.k # "undef" /\ samples[t].q.k # "undef"})

\* the rising or flat limb: the first pair and every pair whose discharge is
\* not below that of the pair before it
RisingPairs(pairs) ==
    Filter(pairs, {t \in 1..Len(pairs) :
                      t = 1 \/ Le(Zero, Sub(pairs[t].q, pairs[t - 1].q))})

\* line 366: the least number of pairs the rising-limb filter is applied to
RisingMin == 5

\* the pairs handed to the rating-curve fit
FitPairs(samples, risingOnlyRC) ==
    LET recentPairs == RecentPairs(samples)
    IN  IF risingOnlyRC /\ Len(recentPairs) >= RisingMin
        THEN IF Len(RisingPairs(recentPairs)) < 3 THEN recentPairs
             ELSE RisingPairs(recentPairs)
        ELSE recentPairs

\* the default curve when fewer than 3 pairs are left
DefaultCurve(downstream) ==
    [a |-> One, b |-> Num(12, 10),
     h0 |-> IF downstream = <<>> THEN Zero ELSE Coalesce(Last(downstream).h, Zero)]

\* the curves rc can be bound to
Curves(downstream, n, risingOnlyRC) ==
    LET pairs == FitPairs(SliceLast(downstream, n), risingOnlyRC)
    IN  IF Len(pairs) >= 3 THEN fitRatingCurve(pairs) ELSE {DefaultCurve(downstream)}

\* the destructuring defaults of the options
DefaultMethod == Str("exp")
DefaultExpAlpha == Num(35, 100)
DefaultMaxPct == Num(12, 100)
DefaultRefQ == Num(300, 1)
DefaultGamma == Num(3, 10)
DefaultKScale == Obj([refQ |-> DefaultRefQ, gamma |-> DefaultGamma])
DefaultRelaxation == Num(35, 100)

WithDefaults(o) ==
    [nSteps |-> o.nSteps,
     inflowMethod |-> Coalesce(o.inflowMethod, DefaultMethod).s,
     expAlpha |-> Coalesce(o.expAlpha, DefaultExpAlpha),
     maxInflowChangePct |-> Coalesce(o.maxInflowChangePct, DefaultMaxPct),
     KScale |-> Coalesce(o.KScale, DefaultKScale).o,
     stageRelaxation |-> Coalesce(o.stageRelaxation, DefaultRelaxation),
     risingOnlyRC |-> Coalesce(o.risingOnlyRC, Bool(TRUE)).b]

\* what leaves the function: the result or the exception
Returned(result) == [kind |-> "value", value |-> result]
Thrown(e) == [kind |-> "throw", error |-> e]

\* bounds of the windows and horizons drawn
MaxUp == 3
MaxDown == 3
MaxSteps == 2

Sample(t, h, q) == [t |-> t, h |-> h, q |-> q]
Const(x, len) == [i \in 1..len |-> x]

\* samples dtSeconds apart whose last one is stamped tLast; a t that does not
\* parse stands at every sample
Stamped(hs, qs, tLast, dtSeconds) ==
    [i \in 1..Len(qs) |->
        Sample(IF IsValidDate(tLast)
               THEN PlusMs(tLast, -((Len(qs) - i) * IntOf(dtSeconds) * 1000))
               ELSE tLast,
               hs[i], qs[i])]

\* the discharge of the steady windows, a second one for the gauged windows,
\* and stages 2.0, 2.5, 3.0, ... m
QSteady == Num(300, 1)
SteadyVals == {QSteady, Num(100, 1)}
RisingStages(len) == [i \in 1..len |-> Num(3 + i, 2)]

\* upstream discharges: none, all missing, steady, and a rise from missing
\* (read as 0) to the steady discharge at the last sample
UpstreamQs ==
    {<<>>} \cup {Const(Undef, len) : len \in 1..MaxUp}
           \cup {Const(QSteady, len) : len \in 1..MaxUp}
           \cup {Append(Const(Undef, len - 1), QSteady) : len \in 1..MaxUp}
SteadyQs == {Const(QSteady, len) : len \in 1..MaxUp}

\* downstream <<stages, discharges>> without a discharge (ungauged) and with
\* the steady discharge (gauged)
UngaugedHQ ==
    {<<Const(h, len), Const(Undef, len)>> : h \in {Undef, Num(2, 1)}, len \in 0..MaxDown}
GaugedHQ(c) ==
    {<<RisingStages(len), Const(c, len)>> : len \in 1..MaxDown}
        \cup {<<Const(Num(2, 1), MaxDown), Const(c, MaxDown)>>,
              <<Const(Undef, 1), Const(c, 1)>>}

\* gauged windows of RisingMin - 1 and RisingMin samples over rising stages
\* whose discharge dips once, falls throughout, or never falls
DipQs(len) ==
    {[i \in 1..len |-> IF i = 3 THEN Num(50, 1) ELSE Num(100, 1)],
     [i \in 1..len |-> Num(100 - 10 * (i - 1), 1)],
     Const(Num(100, 1), len)}
HystereticHQ ==
    UNION {{<<RisingStages(len), qs>> : qs \in DipQs(len)} :
              len \in {RisingMin - 1, RisingMin}}

\* ungauged windows whose stage was observed before the last sample only
StageThenNone ==
    {<<Append(Const(Num(2, 1), len), Undef), Const(Undef, len + 1)>> : len \in 1..2}

\* an unsteady inflow whose routed series ends at the steady discharge, as
\* that of the steady inflow does
UnsteadyQs == <<Num(500, 1), Num(200, 1), QSteady>>

\* the time step with the timestamp of the last sample: quarter-hourly on the
\* minute; half-minutely off the minute, hourly at the epoch, at the last
\* representable date and with a timestamp that does not parse
Timings ==
    {[dtSeconds |-> Num(900, 1), tLast |-> Time(19000, 43200000)]}
SteadyTimings ==
    {[dtSeconds |-> Num(30, 1), tLast |-> Time(19000, 86385500)],
     [dtSeconds |-> Num(3600, 1), tLast |-> Time(0, 0)],
     [dtSeconds |-> Num(3600, 1), tLast |-> Time(MaxDay, 0)],
     [dtSeconds |-> Num(3600, 1), tLast |-> InvalidDate]}
GaugedTimings == {[dtSeconds |-> Num(900, 1), tLast |-> Time(19000, 43200000)]}

WindowOf(uq, hq, tm) ==
    [upstream |-> Stamped(Const(Undef, Len(uq)), uq, tm.tLast, tm.dtSeconds),
     downstream |-> Stamped(hq[1], hq[2], tm.tLast, tm.dtSeconds),
     dtSeconds |-> tm.dtSeconds]

Windows ==
    {WindowOf(uq, hq, tm) : uq \in UpstreamQs, hq \in UngaugedHQ, tm \in Timings}
        \cup {WindowOf(uq, hq, tm) :
                 uq \in SteadyQs \cup {<<>>}, hq \in UngaugedHQ, tm \in SteadyTimings}
        \cup UNION {{WindowOf(Const(c, len), hq, tm) :
                        len \in 1..MaxUp, hq \in GaugedHQ(c), tm \in GaugedTimings} :
                    c \in SteadyVals}
        \cup {WindowOf(Const(Num(100, 1), Len(hq[2])), hq, tm) :
                 hq \in HystereticHQ, tm \in GaugedTimings}
        \cup {WindowOf(uq, hq, tm) : uq \in UpstreamQs, hq \in StageThenNone, tm \in Timings}
        \cup {WindowOf(UnsteadyQs, <<Const(Num(2, 1), 3), Const(Undef, 3)>>, tm) :
                 tm \in Timings}

\* Date.now() when the downstream series is empty
NowVals == {Time(20397, 34567890)}

Methods == {"persistence", "linear", "ar1", "exp"}

\* options: every field given, some fields given, only nSteps given
OptsTuned(m, N) ==
    [nSteps |-> N, inflowMethod |-> Str(m), expAlpha |-> Num(1, 2),
     maxInflowChangePct |-> Num(1, 4),
     KScale |-> Obj([refQ |-> Num(150, 1), gamma |-> One]),
     stageRelaxation |-> One, risingOnlyRC |-> Bool(FALSE)]
OptsPlain(m, N) ==
    [nSteps |-> N, inflowMethod |-> Str(m), expAlpha |-> Undef,
     maxInflowChangePct |-> Undef,
     KScale |-> Obj([refQ |-> Undef, gamma |-> Zero]),
     stageRelaxation |-> Undef, risingOnlyRC |-> Undef]
OptsBare(N) ==
    [nSteps |-> N, inflowMethod |-> Undef, expAlpha |-> Undef,
     maxInflowChangePct |-> Undef, KScale |-> Undef,
     stageRelaxation |-> Undef, risingOnlyRC |-> Undef]

\* the default exponent 0.3 is drawn where the flow ratio is 1 or NaN: the
\* power is then exact
OptsFor(input) ==
    {OptsPlain(m, N) : m \in Methods, N \in 1..MaxSteps}
        \cup {OptsTuned(m, N) : m \in Methods, N \in 1..MaxSteps}
        \cup (IF \A t \in 1..Len(input.upstream) : input.upstream[t].q = QSteady
              THEN {OptsBare(N) : N \in 1..MaxSteps}
              ELSE {})

Init ==
    /\ pc = "entry"
    /\ args \in Windows
    /\ ret = Undef
    /\ FrameIdle

\* lines 350-351: the trimmed inflow (a missing q reads 0) and the trimmed
\* observed outflow (a missing q stays undefined)
TrimmedInflow(upstream, n) ==
    [t \in 1..Len(SliceLast(upstream, n)) |-> Coalesce(SliceLast(upstream, n)[t].q, Zero)]
TrimmedOutflow(downstream, n) ==
    [t \in 1..Len(SliceLast(downstream, n)) |-> SliceLast(downstream, n)[t].q]

\* lines 357-358: the first observed outflow, else the first inflow
FirstOutflow(inflow, outflowObs) ==
    IF FindDefinedFrom(outflowObs, 0) >= 0
    THEN At(outflowObs, FindDefinedFrom(outflowObs, 0))
    ELSE At(inflow, 0)

\* line 380: the last observed stage, else the stage of the last routed flow
LastStage(downstream, q, curve) ==
    IF downstream = <<>> THEN hFromQ(q, curve)
    ELSE Coalesce(Last(downstream).h, hFromQ(q, curve))

\* lines 338-382: destructuring, trimming, estimation, routing of the window,
\* rating curve and the initial values of the loop
Enter ==
    /\ pc = "entry"
    /\ \E n \in {Min(Len(args.upstream), Len(args.downstream))} :
       \E Itrim \in {TrimmedInflow(args.upstream, n)},
          Otrim \in {TrimmedOutflow(args.downstream, n)} :
       \E est \in {estimateMuskingumParams(Itrim, Otrim, args.dtSeconds, NoSearch)} :
         IF est.threw
         THEN /\ pc' = "done"
              /\ ret' = Thrown("TypeError")
              /\ UNCHANGED <<args, fvars>>
         ELSE \E routed \in {muskingumRouteSeries(Itrim, FirstOutflow(Itrim, Otrim),
                                                  est.params)} :
              \E o \in OptsFor(args), now \in NowVals :
              \E curve \in Curves(args.downstream, n, WithDefaults(o).risingOnlyRC) :
                /\ opts' = WithDefaults(o)
                /\ I' = Itrim
                /\ Oobs' = Otrim
                /\ mk' = est.params
                /\ Orouted' = routed
                /\ rcPairs' = FitPairs(SliceLast(args.downstream, n),
                                       WithDefaults(o).risingOnlyRC)
                /\ rc' = curve
                /\ histI' = Itrim
                /\ prevO' = Last(routed)
                /\ prevH' = LastStage(args.downstream, Last(routed), curve)
                /\ lastT' = NewDate(IF args.downstream = <<>> THEN now
                                    ELSE Last(args.downstream).t)
                /\ step' = 1
                /\ forecasts' = <<>>
                /\ pc' = "loop"
                /\ UNCHANGED <<args, ret>>

\* the forecast inflow appended without the cap
NextInflow_uncapped(history, o) ==
    forecastInflowNext(history, o.inflowMethod, o.expAlpha)

\* lines 386-387: the forecast inflow, capped
NextInflow(history, o) ==
    capInflowChange(Last(history),
                    forecastInflowNext(history, o.inflowMethod, o.expAlpha),
                    o.maxInflowChangePct)

\* lines 391-392: the coefficients of the step at the flow-scaled K
StepParams(params, It, o, dtSeconds) ==
    muskingumCoeffs(scaleKByFlow(params.K, It, Coalesce(o.KScale.refQ, DefaultRefQ),
                                 Coalesce(o.KScale.gamma, DefaultGamma)),
                    params.X, dtSeconds)

\* lines 399-400: the stage relaxed toward the stage of the rating curve
RelaxedStage(Hprev, Ot, curve, stageRelaxation) ==
    Add(Hprev, Mul(stageRelaxation, Sub(hFromQ(Ot, curve), Hprev)))

\* histI.push(It) writing over the last entry instead
Push_overwrite(history, It) ==
    IF history = <<>> THEN <<It>> ELSE [history EXCEPT ![Len(history)] = It]

\* line 388: histI.push(It)
Push(history, It) == Append(history, It)

\* lines 384-414: one iteration of the forecast loop; toISOString throws a
\* RangeError on an Invalid Date
ForecastStep ==
    /\ pc = "loop"
    /\ step <= opts.nSteps
    /\ \E It \in {NextInflow(histI, opts)} :
       \E Ot \in {muskingumStep(It, SecondLast(Push(histI, It)), prevO,
                                StepParams(mk, It, opts, args.dtSeconds))} :
       \E Ht \in {RelaxedStage(prevH, Ot, rc, opts.stageRelaxation)},
          forecastTime \in {ForecastTime(lastT, step, args.dtSeconds)} :
         /\ histI' = Push(histI, It)
         /\ IF IsValidDate(forecastTime)
            THEN /\ forecasts' = Append(forecasts,
                                        [step |-> step, q_m3s |-> Ot, h_m |-> Ht,
                                         t |-> ToISOMinute(forecastTime)])
                 /\ prevO' = Ot
                 /\ prevH' = Ht
                 /\ step' = step + 1
                 /\ UNCHANGED <<pc, ret>>
            ELSE /\ pc' = "done"
                 /\ ret' = Thrown("RangeError")
                 /\ UNCHANGED <<forecasts, prevO, prevH, step>>
    /\ UNCHANGED <<args, opts, I, Oobs, mk, Orouted, rcPairs, rc, lastT>>

\* line 416
Return ==
    /\ pc = "loop"
    /\ step > opts.nSteps
    /\ ret' = Returned([muskingum |-> mk, rating |-> rc, routedQ |-> Orouted,
                        forecasts |-> forecasts])
    /\ pc' = "done"
    /\ UNCHANGED <<args, fvars>>

Next == Enter \/ ForecastStep \/ Return

Spec == Init /\ [][Next]_vars

-----------------------------------------------------------------------------
(* Properties of dynamicRouteAndForecastN.                                 *)

Entered == pc # "entry"
ReturnedValue == pc = "done" /\ ret.kind = "value"
NBoth == Min(Len(args.upstream), Len(args.downstream))

\* C4: before any computation the upstream and downstream series are both
\* trimmed to n = min(len(upstream), len(downstream)), keeping the most recent
\* n samples of each, for every pair of lengths, one empty series included.
C4_TrimmedToMin ==
    Entered =>
        /\ Len(I) = NBoth
        /\ Len(Oobs) = NBoth
        /\ \A t \in 1..Len(I) :
              I[t] = Coalesce(args.upstream[Len(args.upstream) - Len(I) + t].q, Zero)
        /\ \A t \in 1..Len(Oobs) :
              Oobs[t] = args.downstream[Len(args.downstream) - Len(Oobs) + t].q

\* a history too short for the inflow method: linear and ar1 look one sample
\* back
TooShort == opts.inflowMethod \in {"linear", "ar1"} /\ Len(I) < 2

\* C5: a call with an empty upstream or downstream series, or a history too
\* short for the inflow method, surfaces an error (InvalidInput) to the caller
\* and produces no forecast record.
C5_ErrorOnEmpty ==
    (pc = "done" /\ (args.upstream = <<>> \/ args.downstream = <<>> \/ TooShort))
        => (ret.kind = "throw" /\ forecasts = <<>>)

NonEmptyWindow == Len(args.upstream) >= 1 /\ Len(args.downstream) >= 1

\* the last forecast time, nSteps steps after the last downstream sample, is a
\* date
HorizonIsDate ==
    /\ IsValidDate(Last(args.downstream).t)
    /\ IsValidDate(PlusMs(Last(args.downstream).t,
                          opts.nSteps * IntOf(args.dtSeconds) * 1000))

\* C6 as stated: for any window with at least one upstream and one downstream
\* sample and any nSteps > 0 the call terminates without raising an error.
C6_NeverRaises ==
    (pc = "done" /\ NonEmptyWindow) => ret.kind = "value"

\* C6: for a window with at least one upstream and one downstream sample whose
\* last downstream timestamp is a date, as is the time nSteps steps after it,
\* and any nSteps > 0, the loop runs at most nSteps iterations and the call
\* returns without raising, whatever fallbacks are taken.
C6_ReturnsOnDates ==
    /\ pc = "loop" => (step <= opts.nSteps + 1 /\ Len(forecasts) = step - 1)
    /\ (pc = "done" /\ NonEmptyWindow /\ HorizonIsDate) => ret.kind = "value"

\* a returned call that took fallbacks: no outflow observation, fewer than 3
\* stage-discharge pairs, the default K below the least stable K
C6_Witness ==
    /\ ReturnedValue
    /\ NonEmptyWindow
    /\ FindDefinedFrom(Oobs, 0) = -1
    /\ rc = DefaultCurve(args.downstream)
    /\ Lt(Num(900, 1), mk.K)
    /\ Len(ret.value.forecasts) = opts.nSteps

\* the timestamp a forecast is stamped from: the last downstream sample, the
\* current time without one
Origin == IF args.downstream = <<>> THEN lastT ELSE Last(args.downstream).t

\* <<day, minute>> stamps in time order
StampLt(a, b) == a[1] < b[1] \/ (a[1] = b[1] /\ a[2] < b[2])

\* C7 as stated: the call returns nSteps records, the i-th with step = i and
\* timestamp = origin + i * dt, origin the timestamp of the last downstream
\* sample, so the timestamps are strictly increasing.
C7_ExactTimestamps ==
    (ReturnedValue /\ args.downstream # <<>>) =>
        /\ Len(ret.value.forecasts) = opts.nSteps
        /\ \A i \in 1..Len(ret.value.forecasts) :
              /\ ret.value.forecasts[i].step = i
              /\ Time(ret.value.forecasts[i].t[1], ret.value.forecasts[i].t[2] * 60000)
                    = PlusMs(Origin, i * IntOf(args.dtSeconds) * 1000)
        /\ \A i, j \in 1..Len(ret.value.forecasts) :
              i < j => StampLt(ret.value.forecasts[i].t, ret.value.forecasts[j].t)

\* C7: a call that returns, returns exactly nSteps records in order; the i-th
\* has step = i and as timestamp origin + i * dt cut to the whole minute,
\* origin being the timestamp of the last downstream sample (the current time
\* without one); the timestamps never decrease and increase strictly when dt
\* is a minute or more.
C7_MinuteTimestamps ==
    /\ Entered =>
          \A i \in 1..Len(forecasts) :
              /\ forecasts[i].step = i
              /\ forecasts[i].t
                    = ToISOMinute(PlusMs(Origin, i * IntOf(args.dtSeconds) * 1000))
              /\ \A j \in 1..Len(forecasts) :
                    i < j =>
                      /\ ~StampLt(forecasts[j].t, forecasts[i].t)
                      /\ Le(Num(60, 1), args.dtSeconds)
                            => StampLt(forecasts[i].t, forecasts[j].t)
    /\ ReturnedValue =>
          (ret.value.forecasts = forecasts /\ Len(forecasts) = opts.nSteps)

\* two records of a returned half-minute forecast carry the same minute
C7_Witness ==
    /\ ReturnedValue
    /\ args.downstream # <<>>
    /\ Len(ret.value.forecasts) = 2
    /\ ret.value.forecasts[1].t = ret.value.forecasts[2].t

\* a window whose inflow is c throughout and whose observed outflow, where
\* there is one, is c
SteadyAt(c) ==
    /\ args.upstream # <<>>
    /\ \A t \in 1..Len(args.upstream) : args.upstream[t].q = c
    /\ \A t \in 1..Len(args.downstream) : args.downstream[t].q \in {c, Undef}

\* C8: for a window whose inflow and observed outflow all equal a constant
\* c > 0, every element of the routed series equals c and, with the
\* persistence method, every forecast discharge equals c, for any stage
\* relaxation, K scaling and estimated (K, X).
C8_SteadyFixedPoint ==
    \A c \in SteadyVals :
        (Entered /\ SteadyAt(c) /\ opts.inflowMethod = "persistence") =>
            /\ \A t \in 1..Len(Orouted) : Orouted[t] = c
            /\ \A i \in 1..Len(forecasts) : forecasts[i].q_m3s = c

\* a returned persistence forecast of a steady window with observed outflow
C8_Witness ==
    /\ ReturnedValue
    /\ \E c \in SteadyVals : SteadyAt(c)
    /\ opts.inflowMethod = "persistence"
    /\ Len(Oobs) >= 2
    /\ \A t \in 1..Len(Oobs) : Oobs[t] # Undef
    /\ Len(ret.value.forecasts) = MaxSteps

\* the stage-discharge pairs of the trimmed downstream window, and those of
\* them on the rising or flat limb
WindowPairs ==
    LET samples == SliceLast(args.downstream, NBoth)
    IN  Filter(samples, {t \in 1..Len(samples) :
                            samples[t].h # Undef /\ samples[t].q # Undef})
NotFalling(prs) ==
    Filter(prs, {t \in 1..Len(prs) : t = 1 \/ ~Lt(prs[t].q, prs[t - 1].q)})

\* C14: with risingOnlyRC set and at least 3 pairs in the window, the pairs
\* fitted are the first pair and every pair whose discharge is not below
\* that of the pair before it, or all the pairs when fewer than 3 are left.
C14_RisingPairsFitted ==
    pc = "loop" /\ opts.risingOnlyRC /\ Len(WindowPairs) >= 3
        => rcPairs = IF Len(NotFalling(WindowPairs)) < 3 THEN WindowPairs
                     ELSE NotFalling(WindowPairs)

\* C15: a sample without a discharge is skipped, never read as discharge 0:
\* a 0 in the inflow series that is routed and forecast from is the
\* discharge of its upstream sample.
C15_MissingNeverZero ==
    pc = "loop" =>
        \A t \in 1..Len(I) :
            histI[t] = Zero => SliceLast(args.upstream, NBoth)[t].q = Zero

\* the discharge and stage that one iteration of the loop computes from an
\* inflow history, with the other locals as they are
StepOutput(history) ==
    LET It == NextInflow(history, opts)
        Ot == muskingumStep(It, Last(history), prevO,
                            StepParams(mk, It, opts, args.dtSeconds))
    IN  <<Ot, RelaxedStage(prevH, Ot, rc, opts.stageRelaxation)>>

\* the parameters and the last routed value of the run over the same window
\* with the upstream discharges h
TwinEntry(h) ==
    LET est == estimateMuskingumParams(h, Oobs, args.dtSeconds, NoSearch).params
    IN  [mk |-> est, prevO |-> Last(muskingumRouteSeries(h, FirstOutflow(h, Oobs), est))]
TwinHistories == {Const(QSteady, Len(UnsteadyQs)), UnsteadyQs}

\* C16: two runs with the same coefficients, rating curve and options that
\* enter a step with the same previous outflow, previous stage and last
\* inflow compute the same discharge and stage at that step, whatever the
\* earlier inflows were (here: the first step of two runs over ungauged
\* windows that differ in the earlier upstream discharges only).
C16_Markov ==
    pc = "loop" /\ step = 1 /\ FindDefinedFrom(Oobs, 0) < 0 =>
        \A h \in TwinHistories :
            /\ Len(h) = Len(I)
            /\ Last(h) = Last(I)
            /\ TwinEntry(h).mk = mk
            /\ TwinEntry(h).prevO = prevO
            => StepOutput(h) = StepOutput(I)

\* the last stage observed in the downstream window: that of the latest
\* sample that has one
StagedSamples == {t \in 1..Len(args.downstream) : args.downstream[t].h # Undef}
LastObservedStage ==
    args.downstream[CHOOSE t \in StagedSamples : \A u \in StagedSamples : u <= t].h

\* C19: with fewer than 3 stage-discharge pairs in the window, the rating
\* curve is a = 1, b = 1.2 and h0 the last observed downstream stage, or 0
\* when no stage was observed.
C19_DefaultCurve ==
    pc = "loop" /\ Len(WindowPairs) < 3
        => rc = [a |-> One, b |-> Num(12, 10),
                 h0 |-> IF StagedSamples = {} THEN Zero ELSE LastObservedStage]

\* C20: the loop starts from the last routed value and the last observed
\* downstream stage, or the stage of the last routed value on the rating
\* curve when no stage was observed.
C20_LoopStart ==
    pc = "loop" /\ step = 1
        => /\ prevO = Last(Orouted)
           /\ prevH = IF StagedSamples = {} THEN hFromQ(prevO, rc)
                      ELSE LastObservedStage

\* the inflow history before its entry t, and the candidate forecast from it
HistoryBefore(t) == SubSeq(histI, 1, t - 1)
\* the entry before entry t of the history: none before the first
Before(t) == At(histI, t - 2)
Candidate(t) == forecastInflowNext(HistoryBefore(t), opts.inflowMethod, opts.expAlpha)

\* C22: every inflow appended to the history lies within maxInflowChangePct
\* of the entry before it whenever that entry is positive, for every inflow
\* method and every step.
C22_InflowCapped ==
    pc = "loop" =>
        \A t \in (Len(I) + 1)..Len(histI) :
            Lt(Zero, Before(t)) =>
                Within(Mul(Before(t), Sub(One, opts.maxInflowChangePct)),
                       histI[t],
                       Mul(Before(t), Add(One, opts.maxInflowChangePct)))

\* a forecast whose candidate inflow was above the band and was appended at
\* the upper edge of the band
C22_Witness ==
    /\ pc = "loop"
    /\ \E t \in (Len(I) + 1)..Len(histI) :
          /\ Lt(Zero, Before(t))
          /\ Lt(Mul(Before(t), Add(One, opts.maxInflowChangePct)), Candidate(t))
          /\ histI[t] = Mul(Before(t), Add(One, opts.maxInflowChangePct))

\* C24: the input window is never changed, and the inflow history is a copy
\* of the observed inflow series that only grows: forecast step k leaves it
\* with k entries more than the observed series, whose entries and every
\* entry appended earlier stay as they are.
C24_PrivateHistory ==
    [][/\ args' = args
       /\ pc = "entry" /\ pc' = "loop" => histI' = I'
       /\ pc = "loop" =>
             /\ I' = I
             /\ Len(histI') >= Len(histI)
             /\ SubSeq(histI', 1, Len(histI)) = histI
             /\ SubSeq(histI', 1, Len(I)) = I
             /\ step' = step + 1 => Len(histI') = Len(I) + step]_vars

\* a returned forecast of MaxSteps steps from at least two observed
\* inflows, whose appended inflows differ from the last observed one
C24_Witness ==
    /\ ReturnedValue
    /\ Len(I) >= 2
    /\ Len(histI) = Len(I) + MaxSteps
    /\ \A t \in (Len(I) + 1)..Len(histI) : histI[t] # histI[Len(I)]

=============================================================================
